---- MODULE Spec2Model ----
(***************************************************************************)
(* Model of go-oci8's oci8.go: the DSN parser (ParseDSN), the connection   *)
(* establishment ladder (OCI8DriverStruct.Open) and transaction control    *)
(* (OCI8Tx.Commit / OCI8Tx.Rollback).                                      *)
(*                                                                         *)
(* A Go string is a sequence of lexical tokens: the separators "@", "/",   *)
(* "?", "&", "=", the scheme prefix "oracle://", percent escapes ("%40" is *)
(* a well-formed escape of "@", "%zz" is malformed) and words.             *)
(***************************************************************************)
EXTENDS Integers, Sequences, FiniteSets, TLC

\* ------------------------------------------------------------------------
\* Bounds
\* ------------------------------------------------------------------------
MaxParams == 2

\* ------------------------------------------------------------------------
\* Native constants used by oci8.go (values of oci.h)
\* ------------------------------------------------------------------------
OCI_SUCCESS == 0
OCI_SUCCESS_WITH_INFO == 1
OCI_ERROR == -1
OCI_INVALID_HANDLE == -2
OCI_DEFAULT == 0
OCI_SYSDBA == 2
OCI_SYSOPER == 4
OCI_SYSASM == 32768
OCI_TRANS_READONLY == 256
OCI_TRANS_READWRITE == 512
OCI_TRANS_SERIALIZABLE == 1024

\* the nil pointer, the nil error, the nil *DSN
NilPtr == 0
NilErr == "nil"
NilDSN == [nil |-> TRUE]

\* ------------------------------------------------------------------------
\* String helpers
\* ------------------------------------------------------------------------
prefix == <<"oracle://">>

HasPrefix(s, p) == Len(s) >= Len(p) /\ SubSeq(s, 1, Len(p)) = p

\* strings.LastIndex for a one-token separator; 0 when absent
LastIndex(s, c) ==
    IF \E i \in 1..Len(s) : s[i] = c
    THEN CHOOSE i \in 1..Len(s) : s[i] = c /\ \A j \in (i+1)..Len(s) : s[j] # c
    ELSE 0

\* strings.Index for a one-token separator; 0 when absent
Index(s, c) ==
    IF \E i \in 1..Len(s) : s[i] = c
    THEN CHOOSE i \in 1..Len(s) : s[i] = c /\ \A j \in 1..(i-1) : s[j] # c
    ELSE 0

\* splitRight(s, "@"): the authority is what precedes the last "@"; without
\* an "@" there is no authority and the whole string remains
splitAuthority(s) ==
    LET i == LastIndex(s, "@")
    IN IF i = 0 THEN << <<>>, s >>
       ELSE << SubSeq(s, 1, i-1), SubSeq(s, i+1, Len(s)) >>

\* splitRight(s, "?"): host-spec before the last "?", query string after it;
\* without a "?" the whole string is the host-spec
splitQuery(s) ==
    LET i == LastIndex(s, "?")
    IN IF i = 0 THEN << s, <<>> >>
       ELSE << SubSeq(s, 1, i-1), SubSeq(s, i+1, Len(s)) >>

\* percent-decoding of one token: [ok, tok]
unescapeTok(t) ==
    IF t = "%40" THEN [ok |-> TRUE, tok |-> "@"]
    ELSE IF t = "%zz" THEN [ok |-> FALSE, tok |-> t]
    ELSE [ok |-> TRUE, tok |-> t]

\* unescape(s, mode): [s, err]; a malformed escape anywhere fails
unescape(s, mode) ==
    IF \E i \in 1..Len(s) : ~unescapeTok(s[i]).ok
    THEN [s |-> <<>>, err |-> "invalid URL escape"]
    ELSE [s |-> [i \in 1..Len(s) |-> unescapeTok(s[i]).tok], err |-> NilErr]

\* parseAuthority: split at the last "/" into username and password, each
\* percent-decoded; without a "/" the whole authority is the username
parseAuthority(authority) ==
    LET i == LastIndex(authority, "/")
        u == IF i = 0 THEN authority ELSE SubSeq(authority, 1, i-1)
        p == IF i = 0 THEN <<>> ELSE SubSeq(authority, i+1, Len(authority))
        uu == unescape(u, "encodeUserPassword")
        pp == unescape(p, "encodeUserPassword")
    IN IF uu.err # NilErr THEN [user |-> <<>>, pass |-> <<>>, err |-> uu.err]
       ELSE IF pp.err # NilErr THEN [user |-> <<>>, pass |-> <<>>, err |-> pp.err]
       ELSE [user |-> uu.s, pass |-> pp.s, err |-> NilErr]

\* the pairs of a query string: "&"-separated, key and value split at the
\* first "=", both percent-decoded. A pair that fails to decode is left out
\* and the first failure is reported next to the pairs that decoded.
RECURSIVE parseQueryPairs(_)
parseQueryPairs(query) ==
    IF query = <<>> THEN [pairs |-> <<>>, err |-> NilErr]
    ELSE
      LET a    == Index(query, "&")
          pair == IF a = 0 THEN query ELSE SubSeq(query, 1, a-1)
          rest == IF a = 0 THEN <<>> ELSE SubSeq(query, a+1, Len(query))
          e    == Index(pair, "=")
          key  == IF e = 0 THEN pair ELSE SubSeq(pair, 1, e-1)
          val  == IF e = 0 THEN <<>> ELSE SubSeq(pair, e+1, Len(pair))
          k    == unescape(key, "encodeQueryComponent")
          v    == unescape(val, "encodeQueryComponent")
          r    == parseQueryPairs(rest)
      IN IF pair = <<>> THEN r
         ELSE IF k.err # NilErr THEN [pairs |-> r.pairs, err |-> k.err]
         ELSE IF v.err # NilErr THEN [pairs |-> r.pairs, err |-> v.err]
         ELSE [pairs |-> << <<k.s, v.s>> >> \o r.pairs, err |-> r.err]

\* the values of the pairs whose key is k, in order of appearance
RECURSIVE valuesOf(_, _)
valuesOf(pairs, k) ==
    IF pairs = <<>> THEN <<>>
    ELSE IF Head(pairs)[1] = k THEN <<Head(pairs)[2]>> \o valuesOf(Tail(pairs), k)
    ELSE valuesOf(Tail(pairs), k)

\* ParseQuery: the mapping from parameter name to its list of values
ParseQuery(query) ==
    LET r    == parseQueryPairs(query)
        keys == {r.pairs[i][1] : i \in 1..Len(r.pairs)}
    IN [m |-> [k \in keys |-> valuesOf(r.pairs, k)], err |-> r.err]

\* ------------------------------------------------------------------------
\* Standard-library conversions used by ParseDSN
\* ------------------------------------------------------------------------
\* time.LoadLocation: "" and "UTC" name UTC, "Local" names the local zone
LoadLocation(name) ==
    IF name = <<>> \/ name = <<"UTC">> THEN [loc |-> "UTC", err |-> NilErr]
    ELSE IF name = <<"Local">> THEN [loc |-> "Local", err |-> NilErr]
    ELSE [loc |-> "nil", err |-> "unknown time zone"]

Digits == {"0", "1", "2", "3", "4", "5", "6", "7", "8", "9"}
DigitVal(d) == CASE d = "0" -> 0 [] d = "1" -> 1 [] d = "2" -> 2 [] d = "3" -> 3
                 [] d = "4" -> 4 [] d = "5" -> 5 [] d = "6" -> 6 [] d = "7" -> 7
                 [] d = "8" -> 8 [] d = "9" -> 9

\* the decimal digits of 1<<32 - 1
MaxUint32Digits == <<"4", "2", "9", "4", "9", "6", "7", "2", "9", "5">>

RECURSIVE stripZeros(_)
stripZeros(s) ==
    IF Len(s) > 1 /\ Head(s) = "0" THEN stripZeros(Tail(s)) ELSE s

\* a <= b for two digit strings of the same length
RECURSIVE digitsLeq(_, _)
digitsLeq(a, b) ==
    IF a = <<>> THEN TRUE
    ELSE IF DigitVal(Head(a)) < DigitVal(Head(b)) THEN TRUE
    ELSE IF DigitVal(Head(a)) > DigitVal(Head(b)) THEN FALSE
    ELSE digitsLeq(Tail(a), Tail(b))

\* strconv.ParseUint(s, 10, 32): one token per character; the value is kept
\* as its canonical decimal digit string (1<<32 - 1 exceeds the integers
\* available here)
ParseUint(s) ==
    IF s = <<>> \/ \E i \in 1..Len(s) : s[i] \notin Digits
    THEN [z |-> <<"0">>, err |-> "invalid syntax"]
    ELSE LET t == stripZeros(s)
         IN IF Len(t) > Len(MaxUint32Digits)
               \/ (Len(t) = Len(MaxUint32Digits) /\ ~digitsLeq(t, MaxUint32Digits))
            THEN [z |-> MaxUint32Digits, err |-> "value out of range"]
            ELSE [z |-> t, err |-> NilErr]

\* ------------------------------------------------------------------------
\* ParseDSN
\* ------------------------------------------------------------------------
\* one iteration of the loop over the parameter mapping: the switch on k
ApplyParam(dsn, k, v) ==
    CASE k = <<"loc">> ->
           IF Len(v) > 0
           THEN LET l == LoadLocation(v[1])
                IN IF l.err # NilErr THEN [dsn |-> NilDSN, err |-> "Invalid loc"]
                   ELSE [dsn |-> [dsn EXCEPT !.Location = l.loc], err |-> NilErr]
           ELSE [dsn |-> dsn, err |-> NilErr]
      [] k = <<"isolation">> ->
           CASE v[1] = <<"READONLY">> ->
                  [dsn |-> [dsn EXCEPT !.transactionMode = OCI_TRANS_READONLY], err |-> NilErr]
             [] v[1] = <<"SERIALIZABLE">> ->
                  [dsn |-> [dsn EXCEPT !.transactionMode = OCI_TRANS_SERIALIZABLE], err |-> NilErr]
             [] v[1] = <<"DEFAULT">> ->
                  [dsn |-> [dsn EXCEPT !.transactionMode = OCI_TRANS_READWRITE], err |-> NilErr]
             [] OTHER -> [dsn |-> NilDSN, err |-> "Invalid isolation"]
      [] k = <<"questionph">> ->
           CASE v[1] \in {<<"YES">>, <<"TRUE">>} ->
                  [dsn |-> [dsn EXCEPT !.enableQMPlaceholders = TRUE], err |-> NilErr]
             [] v[1] \in {<<"NO">>, <<"FALSE">>} ->
                  [dsn |-> [dsn EXCEPT !.enableQMPlaceholders = FALSE], err |-> NilErr]
             [] OTHER -> [dsn |-> NilDSN, err |-> "Invalid questionpm"]
      [] k = <<"prefetch_rows">> ->
           LET z == ParseUint(v[1])
           IN IF z.err # NilErr THEN [dsn |-> NilDSN, err |-> "invalid prefetch_rows"]
              ELSE [dsn |-> [dsn EXCEPT !.prefetchRows = z.z], err |-> NilErr]
      [] k = <<"prefetch_memory">> ->
           LET z == ParseUint(v[1])
           IN IF z.err # NilErr THEN [dsn |-> NilDSN, err |-> "invalid prefetch_memory"]
              ELSE [dsn |-> [dsn EXCEPT !.prefetchMemory = z.z], err |-> NilErr]
      [] k = <<"as">> ->
           CASE v[1] \in {<<"SYSDBA">>, <<"sysdba">>} ->
                  [dsn |-> [dsn EXCEPT !.operationMode = OCI_SYSDBA], err |-> NilErr]
             [] v[1] \in {<<"SYSASM">>, <<"sysasm">>} ->
                  [dsn |-> [dsn EXCEPT !.operationMode = OCI_SYSASM], err |-> NilErr]
             [] v[1] \in {<<"SYSOPER">>, <<"sysoper">>} ->
                  [dsn |-> [dsn EXCEPT !.operationMode = OCI_SYSOPER], err |-> NilErr]
             [] OTHER -> [dsn |-> NilDSN, err |-> "Invalid as"]
      [] OTHER -> [dsn |-> dsn, err |-> NilErr]

\* the loop `for k, v := range qp`, visiting the keys in the given order and
\* returning at the first failure
RECURSIVE ApplyParams(_, _, _)
ApplyParams(dsn, qp, order) ==
    IF order = <<>> THEN [dsn |-> dsn, err |-> NilErr]
    ELSE LET r == ApplyParam(dsn, Head(order), qp[Head(order)])
         IN IF r.err # NilErr THEN r
            ELSE ApplyParams(r.dsn, qp, Tail(order))

\* the orders in which a Go map with key set S can be ranged over
Orders(S) ==
    {o \in [1..Cardinality(S) -> S] : \A i, j \in 1..Cardinality(S) : o[i] = o[j] => i = j}

\* the *DSN ParseDSN allocates first and the safe defaults it sets
NewDSN(user, pass, host) ==
    [Username |-> user, Password |-> pass, Connect |-> host,
     Location |-> "Local", transactionMode |-> 0,
     enableQMPlaceholders |-> FALSE,
     prefetchRows |-> <<"1", "0">>, prefetchMemory |-> <<"0">>,
     operationMode |-> OCI_DEFAULT, externalauthentication |-> FALSE]

\* externalauthentication decided on the credentials alone
SetExternalAuth_M(dsn) ==
    IF Len(dsn.Username) + Len(dsn.Password) = 0
    THEN [dsn EXCEPT !.externalauthentication = TRUE]
    ELSE dsn

\* externalauthentication is set when nothing identifies user or server
SetExternalAuth(dsn) ==
    IF Len(dsn.Username) + Len(dsn.Password) + Len(dsn.Connect) = 0
    THEN [dsn EXCEPT !.externalauthentication = TRUE]
    ELSE dsn

\* ParseDSN(dsnString), with the order in which qp is ranged over made an
\* explicit input: [dsn, err]
ParseDSN(dsnString, order) ==
    IF dsnString = <<>> THEN [dsn |-> NilDSN, err |-> "empty dsn"]
    ELSE
      LET s1   == IF HasPrefix(dsnString, prefix)
                  THEN SubSeq(dsnString, Len(prefix) + 1, Len(dsnString))
                  ELSE dsnString
          sa   == splitAuthority(s1)
          auth == IF sa[1] # <<>> THEN parseAuthority(sa[1])
                  ELSE [user |-> <<>>, pass |-> <<>>, err |-> NilErr]
          sq   == splitQuery(sa[2])
          host == unescape(sq[1], "encodeHost")
          qp   == ParseQuery(sq[2])
      IN IF auth.err # NilErr THEN [dsn |-> NilDSN, err |-> auth.err]
         ELSE IF host.err # NilErr THEN [dsn |-> NilDSN, err |-> host.err]
         ELSE LET r == ApplyParams(NewDSN(auth.user, auth.pass, host.s), qp.m, order)
              IN IF r.err # NilErr THEN [dsn |-> NilDSN, err |-> r.err]
                 ELSE [dsn |-> SetExternalAuth(r.dsn), err |-> NilErr]

\* the parameter mapping ParseDSN ranges over for dsnString
QueryOf(dsnString) ==
    LET s1 == IF HasPrefix(dsnString, prefix)
              THEN SubSeq(dsnString, Len(prefix) + 1, Len(dsnString))
              ELSE dsnString
    IN ParseQuery(splitQuery(splitAuthority(s1)[2])[2])

\* ------------------------------------------------------------------------
\* Inputs
\* ------------------------------------------------------------------------
\* key=value pairs used to build query strings
CoreParams ==
    { <<"loc", "=", "UTC">>, <<"loc", "=", "Nowhere">>,
      <<"isolation", "=", "SERIALIZABLE">>, <<"isolation", "=", "DEFAULT">>,
      <<"isolation", "=", "BOGUS">>,
      <<"questionph", "=", "YES">>, <<"questionph", "=", "FALSE">>,
      <<"questionph", "=", "maybe">>,
      <<"prefetch_rows", "=", "2", "0">>, <<"prefetch_rows", "=", "abc">>,
      <<"prefetch_memory", "=", "4", "2", "9", "4", "9", "6", "7", "2", "9", "6">>,
      <<"as", "=", "SYSDBA">>, <<"as", "=", "sysoper">>, <<"as", "=", "SysDba">>,
      <<"as", "=", "NORMAL">>,
      <<"foo", "=", "bar">>, <<"loc", "=", "%zz">> }

MoreParams ==
    { <<"loc", "=", "Local">>, <<"loc", "=">>, <<"loc">>,
      <<"isolation", "=", "READONLY">>, <<"isolation", "=", "readonly">>,
      <<"questionph", "=", "TRUE">>, <<"questionph", "=", "NO">>,
      <<"prefetch_rows", "=", "0", "0", "7">>, <<"prefetch_rows", "=">>,
      <<"prefetch_rows", "=", "-", "1">>,
      <<"prefetch_memory", "=", "4", "0", "9", "6">>,
      <<"prefetch_memory", "=", "4", "2", "9", "4", "9", "6", "7", "2", "9", "5">>,
      <<"as", "=", "sysdba">>, <<"as", "=", "SYSASM">>, <<"as", "=", "sysasm">>,
      <<"as", "=", "SYSOPER">>, <<"as", "=", "SysOper">>, <<"as", "=", "sYSASM">>,
      <<"as", "=">>, <<"%zz", "=", "x">>, <<"as", "=", "%40">> }

\* the query strings made of n pairs of CoreParams joined by "&"
RECURSIVE QueriesOfLen(_)
QueriesOfLen(n) ==
    IF n = 1 THEN CoreParams
    ELSE {q \o <<"&">> \o c : q \in QueriesOfLen(n-1), c \in CoreParams}

Prefixes == { <<>>, prefix }
Authorities ==
    { <<>>, <<"u", "@">>, <<"u", "/", "p", "@">>, <<"u", "/", "@">>,
      <<"u", "/", "p", "@", "ss", "@">>, <<"u", "/", "p", "%40", "ss", "@">>,
      <<"%zz", "/", "p", "@">>, <<"u", "/", "%zz", "@">>, <<"@">> }
Hosts ==
    { <<>>, <<"host">>, <<"host", ":", "1521", "/", "svc">>, <<"%zz">> }
ShortQueries ==
    { <<>>, <<"?">>, <<"?", "loc", "=", "UTC">>, <<"?", "isolation", "=", "BOGUS">>,
      <<"?", "loc", "=", "%zz">>, <<"?", "as", "=", "SYSDBA">> }

\* the connection strings Open is called with
DSNStrings ==
    {pre \o a \o h \o q : pre \in Prefixes, a \in Authorities, h \in Hosts, q \in ShortQueries}
    \cup {<<"u", "/", "p", "@", "host", "?">> \o c : c \in CoreParams \cup MoreParams}
    \cup UNION { {<<"u", "/", "p", "@", "host", "?">> \o q : q \in QueriesOfLen(n)} : n \in 2..MaxParams }

\* ------------------------------------------------------------------------
\* State
\* ------------------------------------------------------------------------
VARIABLES
    useOCISessionBegin, \* the package-level protocol switch
    procs,              \* the invocations of Open
    dsnString,          \* dsnString[p]: the argument of invocation p
    pc,                 \* pc[p]: the next step of invocation p
    dsn,                \* dsn[p]: the parsed *DSN
    conn,               \* conn[p]: the OCI8Conn under construction
    connection,         \* connection[p]: the returned driver.Conn
    err,                \* err[p]: the returned error
    live,               \* the native handles allocated and not freed
    calls,              \* the native calls made so far, in order
    tx,                 \* tx[p]: an OCI8Tx of the connection exists
    lastTx,             \* lastTx[p]: the last Commit/Rollback and its result
    sql,                \* the statement text placeholders is called with
    rewritten           \* the calls of placeholders made so far: argument and result

vars == <<useOCISessionBegin, procs, dsnString, pc, dsn, conn, connection, err,
          live, calls, tx, lastTx, sql, rewritten>>

NilConn == "nil"
TheConn == "&conn"

\* the zero value of OCI8Conn
ZeroConn ==
    [env |-> NilPtr, errHandle |-> NilPtr, srv |-> NilPtr, svc |-> NilPtr,
     usrSession |-> NilPtr, operationMode |-> 0, location |-> "nil",
     transactionMode |-> 0, prefetchRows |-> <<"0">>, prefetchMemory |-> <<"0">>,
     enableQMPlaceholders |-> FALSE, inTransaction |-> FALSE]

NoTx == [op |-> "none", rv |-> OCI_SUCCESS, ret |-> NilErr]

InitWith(P, D) ==
    /\ useOCISessionBegin \in BOOLEAN
    /\ procs = P
    /\ dsnString \in [P -> D]
    /\ pc = [p \in P |-> "start"]
    /\ dsn = [p \in P |-> NilDSN]
    /\ conn = [p \in P |-> ZeroConn]
    /\ connection = [p \in P |-> NilConn]
    /\ err = [p \in P |-> NilErr]
    /\ live = {}
    /\ calls = <<>>
    /\ tx = [p \in P |-> FALSE]
    /\ lastTx = [p \in P |-> NoTx]

\* no statement is being rewritten
NoStatement == sql = <<>> /\ rewritten = <<>>

Init == InitWith({1}, DSNStrings) /\ NoStatement

\* ------------------------------------------------------------------------
\* The native layer
\* ------------------------------------------------------------------------
\* an allocator that numbers a new handle by the count of allocated handles
NewHandle_M(liveSet) == Cardinality(liveSet) + 1

\* the pointer a successful allocation returns
NewHandle(liveSet) == CHOOSE h \in 1..(Cardinality(liveSet) + 1) : h \notin liveSet

\* one native call: who made it, the primitive, the handle it yields or
\* frees, its status, its other arguments and the handles passed to it
Call(p, op, h, rv, args, uses) ==
    [proc |-> p, op |-> op, h |-> h, rv |-> rv, args |-> args, uses |-> uses]

\* C.OCIHandleFree(unsafe.Pointer(h), htype)
HandleFree(p, h, htype) ==
    Call(p, "OCIHandleFree", h, OCI_SUCCESS, [htype |-> htype], {h})

\* conn.getError(rv): the diagnostic read through the error handle
getError(rv) == "native diagnostic"
ErrorGet(p, c, rv) ==
    Call(p, "OCIErrorGet", NilPtr, OCI_SUCCESS, [rv |-> rv], {c.errHandle})

\* a failure path that frees the handles and reads the diagnostic afterwards
Diagnose_M(p, c, a, rv, frees) == <<a>> \o frees \o <<ErrorGet(p, c, rv)>>

\* lines 252-256, 341-346, 360-362: after the failed call a the diagnostic
\* is read, then the handles are freed
Diagnose(p, c, a, rv, frees) == <<a, ErrorGet(p, c, rv)>> \o frees

AllocStatus == {OCI_SUCCESS, OCI_INVALID_HANDLE}
CallStatus == {OCI_SUCCESS, OCI_SUCCESS_WITH_INFO, OCI_ERROR}
AttrStatus == {OCI_SUCCESS, OCI_ERROR}

\* a failed environment creation that reports nothing
EnvCreateError_M == NilErr

\* line 171: the error of a failed environment creation
EnvCreateError == "can't OCIEnvCreate"

\* a failed session handle allocation reported through the error handle
AllocSessionError_M == "native diagnostic"

\* line 265: the error of a failed user session handle allocation
AllocSessionError == "cant allocate user session handle"

\* Open returns with connection nil and the error e after the native calls cs
\* and the frees of the handles hs
OpenFails(p, e, cs, hs) ==
    /\ err' = [err EXCEPT ![p] = e]
    /\ connection' = [connection EXCEPT ![p] = NilConn]
    /\ calls' = calls \o cs
    /\ live' = live \ hs
    /\ pc' = [pc EXCEPT ![p] = "done"]

\* ------------------------------------------------------------------------
\* Open
\* ------------------------------------------------------------------------
\* lines 153-164: parse the DSN, build the OCI8Conn literal
OpenParse(p) ==
    /\ pc[p] = "start"
    /\ \E order \in Orders(DOMAIN QueryOf(dsnString[p]).m) :
         LET r == ParseDSN(dsnString[p], order)
         IN IF r.err # NilErr
            THEN /\ OpenFails(p, r.err, <<>>, {})
                 /\ UNCHANGED <<dsn, conn>>
            ELSE /\ dsn' = [dsn EXCEPT ![p] = r.dsn]
                 /\ conn' = [conn EXCEPT ![p] = [ZeroConn EXCEPT !.operationMode = r.dsn.operationMode]]
                 /\ pc' = [pc EXCEPT ![p] = "EnvCreate"]
                 /\ UNCHANGED <<connection, err, live, calls>>
    /\ UNCHANGED <<sql, rewritten, useOCISessionBegin, procs, dsnString, tx, lastTx>>

\* lines 166-176: WrapOCIEnvCreate
EnvCreate(p) ==
    /\ pc[p] = "EnvCreate"
    /\ \E rv \in CallStatus :
         IF rv # OCI_SUCCESS /\ rv # OCI_SUCCESS_WITH_INFO
         THEN /\ OpenFails(p, EnvCreateError,
                           <<Call(p, "OCIEnvCreate", NilPtr, rv, [mode |-> "OCI_DEFAULT|OCI_THREADED"], {})>>, {})
              /\ UNCHANGED conn
         ELSE LET h == NewHandle(live)
              IN /\ conn' = [conn EXCEPT ![p].env = h]
                 /\ live' = live \cup {h}
                 /\ calls' = Append(calls, Call(p, "OCIEnvCreate", h, rv, [mode |-> "OCI_DEFAULT|OCI_THREADED"], {}))
                 /\ pc' = [pc EXCEPT ![p] = "AllocErr"]
                 /\ UNCHANGED <<connection, err>>
    /\ UNCHANGED <<sql, rewritten, useOCISessionBegin, procs, dsnString, dsn, tx, lastTx>>

\* a handle allocation whose status is not looked at
AllocOk_M(rv) == TRUE

\* lines 182, 203, 233, 265: the status of WrapOCIHandleAlloc that counts as
\* success
AllocOk(rv) == rv = OCI_SUCCESS

\* a WrapOCIHandleAlloc(conn.env, htype, 0) that returns rv and, on success, h
HandleAlloc(p, c, htype, rv, h) ==
    Call(p, "OCIHandleAlloc", IF rv = OCI_SUCCESS THEN h ELSE NilPtr, rv,
         [htype |-> htype], {c.env})

\* lines 178-189: the error handle
AllocErr(p) ==
    /\ pc[p] = "AllocErr"
    /\ \E rv \in AllocStatus :
         LET c == conn[p]
             h == NewHandle(live)
             a == HandleAlloc(p, c, "OCI_HTYPE_ERROR", rv, h)
         IN IF ~AllocOk(rv)
            THEN /\ OpenFails(p, "cant allocate error handle",
                              <<a, HandleFree(p, c.env, "OCI_HTYPE_ENV")>>, {c.env})
                 /\ UNCHANGED conn
            ELSE /\ conn' = [conn EXCEPT ![p].errHandle = a.h]
                 /\ live' = live \cup ({a.h} \ {NilPtr})
                 /\ calls' = Append(calls, a)
                 /\ pc' = [pc EXCEPT ![p] = IF useOCISessionBegin THEN "AllocSrv" ELSE "Logon"]
                 /\ UNCHANGED <<connection, err>>
    /\ UNCHANGED <<sql, rewritten, useOCISessionBegin, procs, dsnString, dsn, tx, lastTx>>

\* a failed server handle allocation that leaves the error unset
AllocSrvError_M == NilErr

\* line 204: the error of a failed server handle allocation
AllocSrvError == "cant allocate server handle"

\* lines 199-211: the server handle
AllocSrv(p) ==
    /\ pc[p] = "AllocSrv"
    /\ \E rv \in AllocStatus :
         LET c == conn[p]
             h == NewHandle(live)
             a == HandleAlloc(p, c, "OCI_HTYPE_SERVER", rv, h)
         IN IF ~AllocOk(rv)
            THEN /\ OpenFails(p, AllocSrvError,
                              <<a, HandleFree(p, c.errHandle, "OCI_HTYPE_ERROR"),
                                HandleFree(p, c.env, "OCI_HTYPE_ENV")>>,
                              {c.errHandle, c.env})
                 /\ UNCHANGED conn
            ELSE /\ conn' = [conn EXCEPT ![p].srv = a.h]
                 /\ live' = live \cup ({a.h} \ {NilPtr})
                 /\ calls' = Append(calls, a)
                 /\ pc' = [pc EXCEPT ![p] = "ServerAttach"]
                 /\ UNCHANGED <<connection, err>>
    /\ UNCHANGED <<sql, rewritten, useOCISessionBegin, procs, dsnString, dsn, tx, lastTx>>

\* lines 213-227: WrapOCIServerAttach, its status is dropped
ServerAttach(p) ==
    /\ pc[p] = "ServerAttach"
    /\ \E rv \in CallStatus :
         LET c == conn[p]
             host == IF dsn[p].externalauthentication
                     THEN [nil |-> TRUE, s |-> <<>>, len |-> 0]
                     ELSE [nil |-> FALSE, s |-> dsn[p].Connect, len |-> Len(dsn[p].Connect)]
         IN calls' = Append(calls, Call(p, "OCIServerAttach", NilPtr, rv,
                                        [host |-> host, mode |-> OCI_DEFAULT],
                                        {c.srv, c.errHandle}))
    /\ pc' = [pc EXCEPT ![p] = "AllocSvc"]
    /\ UNCHANGED <<sql, rewritten, useOCISessionBegin, procs, dsnString, dsn, conn, connection, err,
                   live, tx, lastTx>>

\* lines 229-242: the service context handle
AllocSvc(p) ==
    /\ pc[p] = "AllocSvc"
    /\ \E rv \in AllocStatus :
         LET c == conn[p]
             h == NewHandle(live)
             a == HandleAlloc(p, c, "OCI_HTYPE_SVCCTX", rv, h)
         IN IF ~AllocOk(rv)
            THEN /\ OpenFails(p, "cant allocate service handle",
                              <<a, HandleFree(p, c.srv, "OCI_HTYPE_SERVER"),
                                HandleFree(p, c.errHandle, "OCI_HTYPE_ERROR"),
                                HandleFree(p, c.env, "OCI_HTYPE_ENV")>>,
                              {c.srv, c.errHandle, c.env})
                 /\ UNCHANGED conn
            ELSE /\ conn' = [conn EXCEPT ![p].svc = a.h]
                 /\ live' = live \cup ({a.h} \ {NilPtr})
                 /\ calls' = Append(calls, a)
                 /\ pc' = [pc EXCEPT ![p] = "AttrSetServer"]
                 /\ UNCHANGED <<connection, err>>
    /\ UNCHANGED <<sql, rewritten, useOCISessionBegin, procs, dsnString, dsn, tx, lastTx>>

\* the frees of a failure once svc is held, the server handle first
FreeFromSvc_M(p, c) ==
    <<HandleFree(p, c.srv, "OCI_HTYPE_SERVER"),
      HandleFree(p, c.svc, "OCI_HTYPE_SVCCTX"),
      HandleFree(p, c.errHandle, "OCI_HTYPE_ERROR"),
      HandleFree(p, c.env, "OCI_HTYPE_ENV")>>

\* the frees of a failure once svc is held: svc, srv, err, env
FreeFromSvc(p, c) ==
    <<HandleFree(p, c.svc, "OCI_HTYPE_SVCCTX"),
      HandleFree(p, c.srv, "OCI_HTYPE_SERVER"),
      HandleFree(p, c.errHandle, "OCI_HTYPE_ERROR"),
      HandleFree(p, c.env, "OCI_HTYPE_ENV")>>

\* the frees of a failure once usrSession is held: usrSession, svc, srv, err, env
FreeFromSession(p, c) ==
    <<HandleFree(p, c.usrSession, "OCI_HTYPE_SESSION")>> \o FreeFromSvc(p, c)

\* an OCIAttrSet(target, ttype, value, size, attr, conn.errHandle)
AttrSet(p, c, target, ttype, value, attr, rv, used) ==
    Call(p, "OCIAttrSet", NilPtr, rv,
         [target |-> target, ttype |-> ttype, value |-> value, attr |-> attr],
         used \cup {target, c.errHandle})

\* lines 244-258: svc.OCI_ATTR_SERVER = srv
AttrSetServer(p) ==
    /\ pc[p] = "AttrSetServer"
    /\ \E rv \in AttrStatus :
         LET c == conn[p]
             a == AttrSet(p, c, c.svc, "OCI_HTYPE_SVCCTX", [ptr |-> c.srv], "OCI_ATTR_SERVER", rv, {c.srv})
         IN IF rv # OCI_SUCCESS
            THEN OpenFails(p, getError(rv), Diagnose(p, c, a, rv, FreeFromSvc(p, c)),
                           {c.svc, c.srv, c.errHandle, c.env})
            ELSE /\ calls' = Append(calls, a)
                 /\ pc' = [pc EXCEPT ![p] = "AllocSession"]
                 /\ UNCHANGED <<connection, err, live>>
    /\ UNCHANGED <<sql, rewritten, useOCISessionBegin, procs, dsnString, dsn, conn, tx, lastTx>>

\* lines 260-275: the user session handle
AllocSession(p) ==
    /\ pc[p] = "AllocSession"
    /\ \E rv \in AllocStatus :
         LET c == conn[p]
             h == NewHandle(live)
             a == HandleAlloc(p, c, "OCI_HTYPE_SESSION", rv, h)
         IN IF ~AllocOk(rv)
            THEN /\ OpenFails(p, AllocSessionError,
                              <<a>> \o FreeFromSvc(p, c),
                              {c.svc, c.srv, c.errHandle, c.env})
                 /\ UNCHANGED conn
            ELSE /\ conn' = [conn EXCEPT ![p].usrSession = a.h]
                 /\ live' = live \cup ({a.h} \ {NilPtr})
                 /\ calls' = Append(calls, a)
                 /\ pc' = [pc EXCEPT ![p] = IF dsn[p].externalauthentication
                                            THEN "SessionBegin" ELSE "AttrSetUsername"]
                 /\ UNCHANGED <<connection, err>>
    /\ UNCHANGED <<sql, rewritten, useOCISessionBegin, procs, dsnString, dsn, tx, lastTx>>

\* an attribute set on the session or service context that unwinds five
\* handles when it fails
SessionAttrSet(p, a, rv, next) ==
    LET c == conn[p]
    IN IF rv # OCI_SUCCESS
       THEN OpenFails(p, getError(rv), Diagnose(p, c, a, rv, FreeFromSession(p, c)),
                      {c.usrSession, c.svc, c.srv, c.errHandle, c.env})
       ELSE /\ calls' = Append(calls, a)
            /\ pc' = [pc EXCEPT ![p] = next]
            /\ UNCHANGED <<connection, err, live>>

\* lines 278-294: usrSession.OCI_ATTR_USERNAME
AttrSetUsername(p) ==
    /\ pc[p] = "AttrSetUsername"
    /\ \E rv \in AttrStatus :
         LET c == conn[p]
         IN SessionAttrSet(p, AttrSet(p, c, c.usrSession, "OCI_HTYPE_SESSION",
                                      [s |-> dsn[p].Username, len |-> Len(dsn[p].Username)],
                                      "OCI_ATTR_USERNAME", rv, {}),
                           rv, "AttrSetPassword")
    /\ UNCHANGED <<sql, rewritten, useOCISessionBegin, procs, dsnString, dsn, conn, tx, lastTx>>

\* lines 296-312: usrSession.OCI_ATTR_PASSWORD
AttrSetPassword(p) ==
    /\ pc[p] = "AttrSetPassword"
    /\ \E rv \in AttrStatus :
         LET c == conn[p]
         IN SessionAttrSet(p, AttrSet(p, c, c.usrSession, "OCI_HTYPE_SESSION",
                                      [s |-> dsn[p].Password, len |-> Len(dsn[p].Password)],
                                      "OCI_ATTR_PASSWORD", rv, {}),
                           rv, "SessionBegin")
    /\ UNCHANGED <<sql, rewritten, useOCISessionBegin, procs, dsnString, dsn, conn, tx, lastTx>>

\* a session always begun with username and password
SessionCred_M(d) == "OCI_CRED_RDBMS"

\* lines 277, 319, 327: the credential type the session is begun with
SessionCred(d) == IF ~d.externalauthentication THEN "OCI_CRED_RDBMS" ELSE "OCI_CRED_EXT"

\* lines 314-329: WrapOCISessionBegin, its status is dropped
SessionBegin(p) ==
    /\ pc[p] = "SessionBegin"
    /\ \E rv \in CallStatus :
         LET c == conn[p]
             cred == SessionCred(dsn[p])
         IN calls' = Append(calls, Call(p, "OCISessionBegin", NilPtr, rv,
                                        [cred |-> cred, mode |-> c.operationMode],
                                        {c.svc, c.errHandle, c.usrSession}))
    /\ pc' = [pc EXCEPT ![p] = "AttrSetSession"]
    /\ UNCHANGED <<sql, rewritten, useOCISessionBegin, procs, dsnString, dsn, conn, connection, err,
                   live, tx, lastTx>>

\* lines 331-347: svc.OCI_ATTR_SESSION = usrSession
AttrSetSession(p) ==
    /\ pc[p] = "AttrSetSession"
    /\ \E rv \in AttrStatus :
         LET c == conn[p]
         IN SessionAttrSet(p, AttrSet(p, c, c.svc, "OCI_HTYPE_SVCCTX", [ptr |-> c.usrSession],
                                      "OCI_ATTR_SESSION", rv, {c.usrSession}),
                           rv, "Return")
    /\ UNCHANGED <<sql, rewritten, useOCISessionBegin, procs, dsnString, dsn, conn, tx, lastTx>>

\* a logon for which only the status success counts as success
LogonOk_M(rv) == rv = OCI_SUCCESS

\* line 359: the statuses of WrapOCILogon that count as success
LogonOk(rv) == ~(rv # OCI_SUCCESS /\ rv # OCI_SUCCESS_WITH_INFO)

\* lines 350-367: WrapOCILogon
Logon(p) ==
    /\ pc[p] = "Logon"
    /\ \E rv \in CallStatus :
         LET c == conn[p]
             h == NewHandle(live)
             ok == LogonOk(rv)
             a == Call(p, "OCILogon", IF ok THEN h ELSE NilPtr, rv,
                       [user |-> dsn[p].Username, pass |-> dsn[p].Password, host |-> dsn[p].Connect],
                       {c.env, c.errHandle})
         IN IF ~ok
            THEN /\ OpenFails(p, getError(rv),
                              Diagnose(p, c, a, rv,
                                       <<HandleFree(p, c.errHandle, "OCI_HTYPE_ERROR"),
                                         HandleFree(p, c.env, "OCI_HTYPE_ENV")>>),
                              {c.errHandle, c.env})
                 /\ UNCHANGED conn
            ELSE /\ conn' = [conn EXCEPT ![p].svc = h]
                 /\ live' = live \cup {h}
                 /\ calls' = Append(calls, a)
                 /\ pc' = [pc EXCEPT ![p] = "Return"]
                 /\ UNCHANGED <<connection, err>>
    /\ UNCHANGED <<sql, rewritten, useOCISessionBegin, procs, dsnString, dsn, tx, lastTx>>

\* a copy that leaves the prefetch row count of the connection unset
CopySettings_M(c, d) ==
    [c EXCEPT !.location = d.Location,
              !.transactionMode = d.transactionMode,
              !.prefetchMemory = d.prefetchMemory,
              !.enableQMPlaceholders = d.enableQMPlaceholders]

\* lines 371-375: the settings of the configuration d copied into the
\* connection c
CopySettings(c, d) ==
    [c EXCEPT !.location = d.Location,
              !.transactionMode = d.transactionMode,
              !.prefetchRows = d.prefetchRows,
              !.prefetchMemory = d.prefetchMemory,
              !.enableQMPlaceholders = d.enableQMPlaceholders]

\* lines 371-379: copy the settings of the DSN and return &conn
OpenReturn(p) ==
    /\ pc[p] = "Return"
    /\ conn' = [conn EXCEPT ![p] = CopySettings(conn[p], dsn[p])]
    /\ connection' = [connection EXCEPT ![p] = TheConn]
    /\ pc' = [pc EXCEPT ![p] = "done"]
    /\ UNCHANGED <<sql, rewritten, useOCISessionBegin, procs, dsnString, dsn, err, live, calls, tx, lastTx>>

\* ------------------------------------------------------------------------
\* Transaction control
\* ------------------------------------------------------------------------
\* a transaction is begun on a returned connection: a fresh OCI8Tx, on
\* which neither Commit nor Rollback has been called
Begin(p) ==
    /\ pc[p] = "done"
    /\ connection[p] = TheConn
    /\ ~conn[p].inTransaction
    /\ conn' = [conn EXCEPT ![p].inTransaction = TRUE]
    /\ tx' = [tx EXCEPT ![p] = TRUE]
    /\ lastTx' = [lastTx EXCEPT ![p] = NoTx]
    /\ UNCHANGED <<sql, rewritten, useOCISessionBegin, procs, dsnString, pc, dsn, connection, err,
                   live, calls>>

\* a Commit or Rollback that leaves the flag as it is
ClearInTransaction_M(c) == c

\* tx.conn after the flag is cleared
ClearInTransaction(c) == [c EXCEPT !.inTransaction = FALSE]

\* the value Commit and Rollback return for the native status rv
TxResult(rv) == IF rv # OCI_SUCCESS THEN getError(rv) ELSE NilErr

\* lines 128-137
Commit(p) ==
    /\ tx[p]
    /\ \E rv \in CallStatus :
         lastTx' = [lastTx EXCEPT ![p] = [op |-> "Commit", rv |-> rv, ret |-> TxResult(rv)]]
    /\ conn' = [conn EXCEPT ![p] = ClearInTransaction(conn[p])]
    /\ UNCHANGED <<sql, rewritten, useOCISessionBegin, procs, dsnString, pc, dsn, connection, err,
                   live, calls, tx>>

\* lines 140-149
Rollback(p) ==
    /\ tx[p]
    /\ \E rv \in CallStatus :
         lastTx' = [lastTx EXCEPT ![p] = [op |-> "Rollback", rv |-> rv, ret |-> TxResult(rv)]]
    /\ conn' = [conn EXCEPT ![p] = ClearInTransaction(conn[p])]
    /\ UNCHANGED <<sql, rewritten, useOCISessionBegin, procs, dsnString, pc, dsn, connection, err,
                   live, calls, tx>>

\* ------------------------------------------------------------------------
\* Placeholder rewriting
\* ------------------------------------------------------------------------
\* the longest statement text of the exhaustive inputs
MaxSqlLen == 4

\* the characters of the statement texts: a letter, the marker, and the two
\* characters a numbered marker is made of
SqlChars == {"a", "?", ":", "1"}

\* a statement with enough markers for two-digit numbers
ManyMarkers == [i \in 1..11 |-> "?"]

SqlStrings == UNION {[1..n -> SqlChars] : n \in 0..MaxSqlLen} \cup {ManyMarkers}

\* the package-level pattern phre: a question mark
phre(ch) == ch = "?"

\* strconv.Itoa for n >= 0
RECURSIVE Itoa(_)
Itoa(n) ==
    LET d == CHOOSE c \in Digits : DigitVal(c) = n % 10
    IN IF n < 10 THEN <<d>> ELSE Itoa(n \div 10) \o <<d>>

\* lines 400-403: every match of phre in s replaced, left to right, by the
\* result of the closure, which shares the counter n
RECURSIVE ReplaceAllStringFunc(_, _)
ReplaceAllStringFunc(s, n) ==
    IF s = <<>> THEN <<>>
    ELSE IF phre(Head(s))
         THEN <<":">> \o Itoa(n + 1) \o ReplaceAllStringFunc(Tail(s), n + 1)
         ELSE <<Head(s)>> \o ReplaceAllStringFunc(Tail(s), n)

\* a rewriting whose closure never increments the counter
placeholders_M(s) ==
    LET RECURSIVE R(_)
        R(t) == IF t = <<>> THEN <<>>
                ELSE IF phre(Head(t)) THEN <<":">> \o Itoa(1) \o R(Tail(t))
                     ELSE <<Head(t)>> \o R(Tail(t))
    IN R(s)

\* lines 398-404: placeholders
placeholders(s) == ReplaceAllStringFunc(s, 0)

\* placeholders is called with the statement text
Placeholders ==
    /\ rewritten = <<>>
    /\ rewritten' = <<[in |-> sql, out |-> placeholders(sql)]>>
    /\ UNCHANGED <<sql, useOCISessionBegin, procs, dsnString, pc, dsn, conn,
                   connection, err, live, calls, tx, lastTx>>

\* placeholders is called once more, with the statement text or with its
\* own result
PlaceholdersAgain ==
    /\ Len(rewritten) = 1
    /\ \E s \in {sql, rewritten[1].out} :
         rewritten' = Append(rewritten, [in |-> s, out |-> placeholders(s)])
    /\ UNCHANGED <<sql, useOCISessionBegin, procs, dsnString, pc, dsn, conn,
                   connection, err, live, calls, tx, lastTx>>

InitPlaceholders ==
    /\ InitWith({1}, {<<"host">>})
    /\ sql \in SqlStrings
    /\ rewritten = <<>>

NextPlaceholders == Placeholders \/ PlaceholdersAgain

SpecPlaceholders == InitPlaceholders /\ [][NextPlaceholders]_vars

\* ------------------------------------------------------------------------
\* Specification
\* ------------------------------------------------------------------------
Next ==
    \E p \in procs :
        \/ OpenParse(p)
        \/ EnvCreate(p)
        \/ AllocErr(p)
        \/ AllocSrv(p)
        \/ ServerAttach(p)
        \/ AllocSvc(p)
        \/ AttrSetServer(p)
        \/ AllocSession(p)
        \/ AttrSetUsername(p)
        \/ AttrSetPassword(p)
        \/ SessionBegin(p)
        \/ AttrSetSession(p)
        \/ Logon(p)
        \/ OpenReturn(p)
        \/ Begin(p)
        \/ Commit(p)
        \/ Rollback(p)

Spec == Init /\ [][Next]_vars

\* ------------------------------------------------------------------------
\* Observations on the log of native calls
\* ------------------------------------------------------------------------
CallsOf(p) == SelectSeq(calls, LAMBDA c : c.proc = p)

Acquires(c) == c.op \in {"OCIEnvCreate", "OCIHandleAlloc", "OCILogon"} /\ c.h # NilPtr
Frees(c) == c.op = "OCIHandleFree"
Failed(c) == c.rv \notin {OCI_SUCCESS, OCI_SUCCESS_WITH_INFO}

\* the handle type a call acquires or frees
HTypeOf(c) ==
    CASE c.op = "OCIEnvCreate" -> "OCI_HTYPE_ENV"
      [] c.op = "OCILogon" -> "OCI_HTYPE_SVCCTX"
      [] OTHER -> c.args.htype

RECURSIVE Reverse(_)
Reverse(s) == IF s = <<>> THEN <<>> ELSE Append(Reverse(Tail(s)), Head(s))

RECURSIVE HandlesIn(_)
HandlesIn(cs) ==
    IF cs = <<>> THEN <<>> ELSE << <<Head(cs).h, HTypeOf(Head(cs))>> >> \o HandlesIn(Tail(cs))

\* the handles invocation p acquired / freed, in order, with their types
Acquired(p) == HandlesIn(SelectSeq(CallsOf(p), Acquires))
Freed(p) == HandlesIn(SelectSeq(CallsOf(p), Frees))

SeqRange(s) == {s[i] : i \in 1..Len(s)}

\* the handles of p that are still allocated: acquired by p and not freed since
Held(p) ==
    {h \in live : \E i \in 1..Len(calls) :
        /\ calls[i].proc = p /\ Acquires(calls[i]) /\ calls[i].h = h
        /\ \A j \in (i+1)..Len(calls) : ~(calls[j].h = h /\ (Frees(calls[j]) \/ Acquires(calls[j])))}

\* the position in CallsOf(p) of the first native call that failed, 0 if none
FirstFailure(p) ==
    LET cs == CallsOf(p)
    IN IF \E i \in 1..Len(cs) : Failed(cs[i])
       THEN CHOOSE i \in 1..Len(cs) : Failed(cs[i]) /\ \A j \in 1..(i-1) : ~Failed(cs[j])
       ELSE 0

\* ------------------------------------------------------------------------
\* Claims
\* ------------------------------------------------------------------------

\* C1: in the session-protocol branch, a run of Open in which a native call
\* of the ladder failed at step k ends with exactly the handles acquired in
\* steps 1..k-1 released and with no handle still allocated.
\* (Stated as claimed; the code drops the status of server attach and of
\* session begin.)
C1_FailureReleasesAll ==
    \A p \in procs :
        (useOCISessionBegin /\ pc[p] = "done" /\ FirstFailure(p) # 0) =>
            LET cs == CallsOf(p)
                before == HandlesIn(SelectSeq(SubSeq(cs, 1, FirstFailure(p) - 1), Acquires))
            IN /\ SeqRange(Freed(p)) = SeqRange(before)
               /\ Held(p) = {}

\* C2: in the session-protocol branch Open returns a connection only from a
\* run in which every native call, server attach and session begin
\* included, succeeded. (Stated as claimed.)
C2_NoConnectionAfterFailure ==
    \A p \in procs :
        (useOCISessionBegin /\ connection[p] = TheConn) => FirstFailure(p) = 0

\* C3: every run of Open ends with exactly one of its two results set; until
\* it ends neither is set.
C3_ExactlyOneResult ==
    \A p \in procs :
        IF pc[p] = "done"
        THEN \/ connection[p] = TheConn /\ err[p] = NilErr
             \/ connection[p] = NilConn /\ err[p] # NilErr
        ELSE connection[p] = NilConn /\ err[p] = NilErr

\* a run that failed at the allocation of the server handle
C3_Witness ==
    \E p \in procs :
        /\ pc[p] = "done" /\ connection[p] = NilConn /\ err[p] # NilErr
        /\ \E i \in 1..Len(calls) :
              calls[i].proc = p /\ calls[i].op = "OCIHandleAlloc"
              /\ calls[i].args.htype = "OCI_HTYPE_SERVER" /\ Failed(calls[i])

\* C4: on every run of Open that returns an error, the handles are freed in
\* the exact reverse of their acquisition order, each with its own handle
\* type: every acquired handle is freed once, nothing else is freed, and no
\* native call follows the frees before the error is returned.
C4_ReverseOrderUnwind ==
    \A p \in procs :
        (pc[p] = "done" /\ err[p] # NilErr) =>
            LET cs == CallsOf(p)
                n  == Len(Freed(p))
            IN /\ Freed(p) = Reverse(Acquired(p))
               /\ \A i \in 1..Len(cs) : Frees(cs[i]) <=> i > Len(cs) - n
               /\ Held(p) = {}

\* a run that failed with all five handles held and freed them
C4_Witness ==
    \E p \in procs :
        /\ pc[p] = "done" /\ err[p] # NilErr
        /\ Len(Freed(p)) = 5

\* C5: in the direct-logon branch, once the logon call has returned: for the
\* statuses success and success-with-info Open goes on to return a
\* connection that holds env, err and the svc handle the call yielded, srv
\* and usrSession unset; for any other status Open reads the diagnostic,
\* frees the error handle, then the environment handle, and returns the
\* diagnostic with no connection.
C5_DirectLogon ==
    \A p \in procs :
        LET cs == CallsOf(p)
        IN \A i \in 1..Len(cs) :
             cs[i].op = "OCILogon" =>
               IF cs[i].rv \in {OCI_SUCCESS, OCI_SUCCESS_WITH_INFO}
               THEN /\ err[p] = NilErr
                    /\ Len(cs) = i
                    /\ conn[p].svc = cs[i].h /\ cs[i].h # NilPtr
                    /\ conn[p].srv = NilPtr /\ conn[p].usrSession = NilPtr
                    /\ Held(p) = {conn[p].env, conn[p].errHandle, conn[p].svc}
                    /\ Cardinality(Held(p)) = 3
                    /\ pc[p] \in {"Return", "done"}
                    /\ (pc[p] = "done" => connection[p] = TheConn)
               ELSE /\ pc[p] = "done"
                    /\ connection[p] = NilConn
                    /\ err[p] = "native diagnostic"
                    /\ Len(cs) = i + 3
                    /\ cs[i+1].op = "OCIErrorGet"
                    /\ Frees(cs[i+2]) /\ cs[i+2].h = conn[p].errHandle
                    /\ Frees(cs[i+3]) /\ cs[i+3].h = conn[p].env
                    /\ Held(p) = {}

\* a connection returned after a logon that reported success-with-info
C5_Witness ==
    \E p \in procs :
        /\ ~useOCISessionBegin /\ pc[p] = "done" /\ connection[p] = TheConn
        /\ \E i \in 1..Len(calls) :
              calls[i].proc = p /\ calls[i].op = "OCILogon"
              /\ calls[i].rv = OCI_SUCCESS_WITH_INFO

\* C6: a call of Commit or Rollback clears the connection's in-transaction
\* flag and changes no other field of the connection, whatever the native
\* status; it returns nil for the status success and the native diagnostic
\* for any other; the flag is false for as long as that call is the last
\* thing done with the transaction.
C6_TxClearsFlag ==
    /\ [](\A p \in procs : lastTx[p].op # "none" => ~conn[p].inTransaction)
    /\ [][\A p \in procs :
            (lastTx'[p] # lastTx[p] /\ lastTx'[p].op # "none") =>
               /\ conn'[p] = [conn[p] EXCEPT !.inTransaction = FALSE]
               /\ lastTx'[p].op \in {"Commit", "Rollback"}
               /\ (lastTx'[p].rv = OCI_SUCCESS => lastTx'[p].ret = NilErr)
               /\ (lastTx'[p].rv # OCI_SUCCESS => lastTx'[p].ret = "native diagnostic")]_vars

\* a Commit whose native call failed, on a transaction that had been begun
C6_Witness ==
    \E p \in procs :
        /\ tx[p] /\ lastTx[p].op = "Commit" /\ lastTx[p].rv = OCI_ERROR
        /\ lastTx[p].ret # NilErr /\ ~conn[p].inTransaction

\* ------------------------------------------------------------------------
\* The steps of ParseDSN, taken one by one on an input
\* ------------------------------------------------------------------------
StripPrefix(s) ==
    IF HasPrefix(s, prefix) THEN SubSeq(s, Len(prefix) + 1, Len(s)) ELSE s

AuthorityOf(s) == splitAuthority(StripPrefix(s))[1]
HostOf(s) == splitQuery(splitAuthority(StripPrefix(s))[2])[1]

AuthorityFails(s) == AuthorityOf(s) # <<>> /\ parseAuthority(AuthorityOf(s)).err # NilErr
HostFails(s) == unescape(HostOf(s), "encodeHost").err # NilErr
QueryFails(s) == QueryOf(s).err # NilErr

\* the input gets as far as the loop over the parameter mapping
ReachesLoop(s) == s # <<>> /\ ~AuthorityFails(s) /\ ~HostFails(s)

\* the switch rejects the values listed for parameter k
ParamRejected(s, k) ==
    ApplyParam(NewDSN(<<>>, <<>>, <<>>), k, QueryOf(s).m[k]).err # NilErr

ValidationFails(s) == \E k \in DOMAIN QueryOf(s).m : ParamRejected(s, k)

Recognized ==
    { <<"loc">>, <<"isolation">>, <<"questionph">>, <<"prefetch_rows">>,
      <<"prefetch_memory">>, <<"as">> }

\* upper-casing of a word
ToUpperTok(t) ==
    CASE t \in {"sysdba", "SysDba"} -> "SYSDBA"
      [] t \in {"sysasm", "sYSASM"} -> "SYSASM"
      [] t \in {"sysoper", "SysOper"} -> "SYSOPER"
      [] t = "readonly" -> "READONLY"
      [] t = "maybe" -> "MAYBE"
      [] t = "abc" -> "ABC"
      [] t = "bar" -> "BAR"
      [] t = "x" -> "X"
      [] OTHER -> t
ToUpper(v) == [i \in 1..Len(v) |-> ToUpperTok(v[i])]

\* the privileged mode a value of `as` names, compared without regard to case
PrivilegedModes == [SYSDBA |-> OCI_SYSDBA, SYSASM |-> OCI_SYSASM, SYSOPER |-> OCI_SYSOPER]
NamesMode(v) == Len(v) = 1 /\ ToUpper(v)[1] \in DOMAIN PrivilegedModes
ModeNamed(v) == PrivilegedModes[ToUpper(v)[1]]

\* the first value v of recognized parameter k is one the parameter admits
ValidValue(k, v) ==
    CASE k = <<"loc">> -> v \in {<<>>, <<"UTC">>, <<"Local">>}
      [] k = <<"isolation">> -> v \in {<<"READONLY">>, <<"SERIALIZABLE">>, <<"DEFAULT">>}
      [] k = <<"questionph">> -> v \in {<<"YES">>, <<"TRUE">>, <<"NO">>, <<"FALSE">>}
      [] k \in {<<"prefetch_rows">>, <<"prefetch_memory">>} ->
           /\ v # <<>>
           /\ \A i \in 1..Len(v) : v[i] \in Digits
           /\ LET t == stripZeros(v)
              IN \/ Len(t) < 10
                 \/ Len(t) = 10 /\ digitsLeq(t, MaxUint32Digits)
      [] k = <<"as">> -> NamesMode(v)

\* C7: ParseDSN fails on the empty string, and whenever a parsing step
\* signals failure (authority decoding, host decoding, query-string parsing,
\* validation of a parameter) it returns an error and a nil configuration,
\* so that Open ends there. (Stated as claimed; the code drops the error of
\* ParseQuery.)
C7_NoConfigAfterFailedStep ==
    \A p \in procs :
        LET s == dsnString[p]
        IN (/\ pc[p] # "start"
            /\ \/ s = <<>>
               \/ AuthorityFails(s)
               \/ HostFails(s)
               \/ QueryFails(s)
               \/ ValidationFails(s))
           => dsn[p] = NilDSN /\ err[p] # NilErr /\ pc[p] = "done"

\* C8: in every configuration ParseDSN returns, the external-authentication
\* flag is true exactly when username, password and connect-string are all
\* empty.
C8_ExternalAuthIffAllEmpty ==
    \A p \in procs :
        dsn[p] # NilDSN =>
            (dsn[p].externalauthentication <=>
                (dsn[p].Username = <<>> /\ dsn[p].Password = <<>> /\ dsn[p].Connect = <<>>))

\* an input made of a query string only, parsed with the flag set
C8_Witness ==
    \E p \in procs :
        /\ dsnString[p] = <<"?", "loc", "=", "UTC">>
        /\ dsn[p] # NilDSN /\ dsn[p].externalauthentication

\* C9: for an input that gets as far as the loop over the parameter mapping,
\* ParseDSN fails exactly when some recognized parameter has an invalid
\* first value, whatever the order in which the mapping is ranged over, and
\* when it succeeds the configuration is the same for every order.
\* (Stated as claimed; a mixed-case value of `as` is valid and yet rejected.)
C9_OrderIndependent ==
    \A p \in procs :
        LET s  == dsnString[p]
            qp == QueryOf(s).m
            invalid == \E k \in DOMAIN qp \cap Recognized : ~ValidValue(k, qp[k][1])
        IN (pc[p] # "start" /\ ReachesLoop(s)) =>
             /\ (dsn[p] = NilDSN) <=> invalid
             /\ \A o \in Orders(DOMAIN qp) :
                   /\ (ParseDSN(s, o).err # NilErr) <=> invalid
                   /\ ParseDSN(s, o).dsn = dsn[p]

\* C10: the value of `as` is accepted without regard to case: every spelling
\* of SYSDBA, SYSASM or SYSOPER selects that privileged mode, every other
\* value makes ParseDSN fail. (Stated as claimed; the code lists only the
\* all-upper and all-lower spellings.)
C10_AsCaseInsensitive ==
    \A p \in procs :
        LET s  == dsnString[p]
            qp == QueryOf(s).m
        IN (pc[p] # "start" /\ ReachesLoop(s) /\ DOMAIN qp = {<<"as">>}) =>
             IF NamesMode(qp[<<"as">>][1])
             THEN dsn[p] # NilDSN /\ dsn[p].operationMode = ModeNamed(qp[<<"as">>][1])
             ELSE dsn[p] = NilDSN /\ err[p] # NilErr


\* C11: in every configuration ParseDSN returns, the transaction isolation
\* level is one of READ-ONLY, SERIALIZABLE, READ-WRITE, and without an
\* `isolation` parameter it is READ-WRITE, the level isolation=DEFAULT
\* selects. (Stated as claimed; the code leaves the level at zero.)
C11_IsolationLevel ==
    \A p \in procs :
        dsn[p] # NilDSN =>
            /\ dsn[p].transactionMode \in
                  {OCI_TRANS_READONLY, OCI_TRANS_SERIALIZABLE, OCI_TRANS_READWRITE}
            /\ (<<"isolation">> \notin DOMAIN QueryOf(dsnString[p]).m =>
                  dsn[p].transactionMode = OCI_TRANS_READWRITE)

\* the components a connection string is written from
Users == { <<"u">> }
Passwords == { <<"p">>, <<"p", "@", "ss">> }
HostSpecs == { <<"host">>, <<"host", ":", "1521", "/", "svc">> }

\* s is user/password@host-spec, with or without the prefix and a query string
MadeOf(s, u, pw, h) ==
    LET body == StripPrefix(s)
        head == u \o <<"/">> \o pw \o <<"@">> \o h
    IN /\ HasPrefix(body, head)
       /\ Len(body) = Len(head) \/ body[Len(head) + 1] = "?"
       /\ \A i \in (Len(head) + 1)..Len(body) : body[i] # "@"

\* every parameter of the query string is a recognized one with a valid value
AllParamsValid(s) ==
    LET q == QueryOf(s)
    IN /\ q.err = NilErr
       /\ DOMAIN q.m \subseteq Recognized
       /\ \A k \in DOMAIN q.m : ValidValue(k, q.m[k][1])

\* the field a parameter's first value stands for, or the default d
FirstValueOr(s, k, d, f(_)) ==
    LET qp == QueryOf(s).m
    IN IF k \in DOMAIN qp THEN f(qp[k][1]) ELSE d

LocationNamed(v) == IF v = <<>> THEN "UTC" ELSE v[1]
PlaceholdersNamed(v) == v \in {<<"YES">>, <<"TRUE">>}

\* C12: for a connection string made of a user, a password, a host-spec and
\* recognized parameters with valid values, ParseDSN succeeds; the fields
\* are the supplied components and the parameters' first values; a field
\* whose parameter is absent keeps its default (prefetch rows 10, prefetch
\* memory 0, privileged mode default, timezone local, placeholders off).
\* (Stated as claimed; a mixed-case value of `as` is valid and yet rejected.)
C12_FieldsFromComponents ==
    \A p \in procs : \A u \in Users, pw \in Passwords, h \in HostSpecs :
        LET s == dsnString[p]
        IN (pc[p] # "start" /\ MadeOf(s, u, pw, h) /\ AllParamsValid(s)) =>
             /\ dsn[p] # NilDSN
             /\ dsn[p].Username = u /\ dsn[p].Password = pw /\ dsn[p].Connect = h
             /\ dsn[p].Location = FirstValueOr(s, <<"loc">>, "Local", LocationNamed)
             /\ dsn[p].enableQMPlaceholders =
                   FirstValueOr(s, <<"questionph">>, FALSE, PlaceholdersNamed)
             /\ dsn[p].prefetchRows = FirstValueOr(s, <<"prefetch_rows">>, <<"1", "0">>, stripZeros)
             /\ dsn[p].prefetchMemory = FirstValueOr(s, <<"prefetch_memory">>, <<"0">>, stripZeros)
             /\ dsn[p].operationMode = FirstValueOr(s, <<"as">>, OCI_DEFAULT, ModeNamed)


\* the acquisition order of the session protocol, as fields of OCI8Conn
SessionOrder == <<"env", "errHandle", "srv", "svc", "usrSession">>
\* the acquisition order of the direct logon
LogonOrder == <<"env", "errHandle", "svc">>

\* the handle fields of c are set along the order o: a field is set only if
\* all fields before it are, and fields outside o are unset
SetInOrder(c, o) ==
    /\ \A i \in 1..Len(o) : c[o[i]] # NilPtr => \A j \in 1..(i-1) : c[o[j]] # NilPtr
    /\ \A f \in SeqRange(SessionOrder) \ SeqRange(o) : c[f] = NilPtr

\* the handles c holds along o are those invocation p was given by successful
\* allocations, in that order
AllocatedInOrder(p, c, o) ==
    LET got == Acquired(p)
    IN /\ \A i \in 1..Len(got) : i <= Len(o) /\ c[o[i]] = got[i][1]
       /\ \A i \in 1..Len(o) : c[o[i]] # NilPtr => i <= Len(got)
       /\ \A i \in 1..Len(calls) : Acquires(calls[i]) => ~Failed(calls[i])

\* a returned session-protocol connection holds five distinct live handles
HoldsAllFive(p) ==
    /\ \A i \in 1..Len(SessionOrder) : conn[p][SessionOrder[i]] \in Held(p)
    /\ Cardinality(Held(p)) = Len(SessionOrder)

\* C13 as claimed: in both branches every handle is held only if all handles
\* before it in the order env, err, srv, svc, usrSession were allocated
\* earlier in the run.
C13_HeldInSessionOrder ==
    \A p \in procs :
        /\ SetInOrder(conn[p], SessionOrder)
        /\ AllocatedInOrder(p, conn[p], SessionOrder)
        /\ (useOCISessionBegin /\ connection[p] = TheConn) => HoldsAllFive(p)

\* C13, amended: the order is env, err, srv, svc, usrSession in the session
\* protocol and env, err, svc in the direct logon, where srv and usrSession
\* are never held; at every point of Open and in the returned connection a
\* handle is held only if the handles before it in that order were
\* successfully allocated earlier in the same run; a successful
\* session-protocol Open returns all five handles, none of them freed.
C13_HeldInBranchOrder ==
    \A p \in procs :
        LET o == IF useOCISessionBegin THEN SessionOrder ELSE LogonOrder
        IN /\ SetInOrder(conn[p], o)
           /\ AllocatedInOrder(p, conn[p], o)
           /\ (useOCISessionBegin /\ connection[p] = TheConn) => HoldsAllFive(p)

\* a session-protocol connection returned with its five handles
C13_Witness ==
    \E p \in procs :
        /\ useOCISessionBegin /\ pc[p] = "done" /\ connection[p] = TheConn
        /\ conn[p].usrSession # NilPtr /\ conn[p].usrSession \in live


\* cs[i] sets attribute attr
SetsAttr(c, attr) == c.op = "OCIAttrSet" /\ c.args.attr = attr

\* C14: in the session-protocol branch, with external authentication the
\* server is attached with no host string, neither the username nor the
\* password attribute is ever set and the session is begun with credential
\* type EXT; otherwise the server is attached with the host-spec and its
\* length, the username is set before the password and both before the
\* session is begun with credential type RDBMS. In both cases the session is
\* begun with the configured privileged mode, before the service context's
\* session attribute is set.
C14_SessionProtocolCalls ==
    \A p \in procs :
        LET cs == CallsOf(p)
            d  == dsn[p]
        IN useOCISessionBegin =>
            \A i \in 1..Len(cs) :
              /\ cs[i].op = "OCIServerAttach" =>
                   IF d.externalauthentication
                   THEN cs[i].args.host.nil
                   ELSE /\ ~cs[i].args.host.nil
                        /\ cs[i].args.host.s = d.Connect
                        /\ cs[i].args.host.len = Len(d.Connect)
              /\ (SetsAttr(cs[i], "OCI_ATTR_USERNAME") \/ SetsAttr(cs[i], "OCI_ATTR_PASSWORD")) =>
                   ~d.externalauthentication
              /\ SetsAttr(cs[i], "OCI_ATTR_USERNAME") => cs[i].args.value.s = d.Username
              /\ SetsAttr(cs[i], "OCI_ATTR_PASSWORD") =>
                   /\ cs[i].args.value.s = d.Password
                   /\ \E j \in 1..(i-1) : SetsAttr(cs[j], "OCI_ATTR_USERNAME")
              /\ cs[i].op = "OCISessionBegin" =>
                   /\ cs[i].args.mode = d.operationMode
                   /\ IF d.externalauthentication
                      THEN cs[i].args.cred = "OCI_CRED_EXT"
                      ELSE /\ cs[i].args.cred = "OCI_CRED_RDBMS"
                           /\ \E j \in 1..(i-1) : SetsAttr(cs[j], "OCI_ATTR_PASSWORD")
                   /\ \E j \in 1..(i-1) : cs[j].op = "OCIServerAttach"
              /\ SetsAttr(cs[i], "OCI_ATTR_SESSION") =>
                   \E j \in 1..(i-1) : cs[j].op = "OCISessionBegin"

\* an externally authenticated session begun in a privileged mode
C14_Witness ==
    \E p \in procs :
        /\ useOCISessionBegin /\ pc[p] = "done" /\ connection[p] = TheConn
        /\ dsn[p].externalauthentication /\ dsn[p].operationMode = OCI_SYSDBA
        /\ \E i \in 1..Len(calls) :
              calls[i].proc = p /\ calls[i].op = "OCISessionBegin"
              /\ calls[i].args.cred = "OCI_CRED_EXT"


\* the native call whose failure made invocation p return: the last call
\* that neither frees a handle nor reads the diagnostic
CauseIndex(p) ==
    LET cs == CallsOf(p)
        isCall(i) == ~Frees(cs[i]) /\ cs[i].op # "OCIErrorGet"
    IN CHOOSE i \in 1..Len(cs) : isCall(i) /\ \A j \in (i+1)..Len(cs) : ~isCall(j)

\* invocation p has returned after a native call failed
ReturnedNativeFailure(p) ==
    pc[p] = "done" /\ connection[p] = NilConn /\ dsn[p] # NilDSN

\* the fixed descriptive string of a failed allocation
FixedString(c) ==
    CASE c.op = "OCIEnvCreate" -> "can't OCIEnvCreate"
      [] c.args.htype = "OCI_HTYPE_ERROR" -> "cant allocate error handle"
      [] c.args.htype = "OCI_HTYPE_SERVER" -> "cant allocate server handle"
      [] c.args.htype = "OCI_HTYPE_SVCCTX" -> "cant allocate service handle"
      [] c.args.htype = "OCI_HTYPE_SESSION" -> "cant allocate user session handle"

\* the diagnostic is read right after call i of p and is what p returns
ReturnsDiagnostic(p, i) ==
    LET cs == CallsOf(p)
    IN /\ err[p] = "native diagnostic"
       /\ i < Len(cs) /\ cs[i+1].op = "OCIErrorGet"
       /\ cs[i+1].uses = {conn[p].errHandle}

\* p returns the fixed string of call i and never reads a diagnostic
ReturnsFixedString(p, i) ==
    LET cs == CallsOf(p)
    IN /\ err[p] = FixedString(cs[i])
       /\ \A j \in 1..Len(cs) : cs[j].op # "OCIErrorGet"

\* C15 as claimed: a failure after the error handle has been allocated
\* returns the diagnostic read from the error handle; a fixed string is
\* returned only when no error handle exists yet.
C15_DiagnosticOnceErrHandle ==
    \A p \in procs :
        ReturnedNativeFailure(p) =>
            IF conn[p].errHandle # NilPtr
            THEN ReturnsDiagnostic(p, CauseIndex(p))
            ELSE ReturnsFixedString(p, CauseIndex(p))

\* C15, amended: a failed attribute set and a failed logon return the
\* diagnostic read from the native error handle; a failed environment
\* creation and every failed handle allocation (error, server, service
\* context, session) return a fixed descriptive string, whether or not an
\* error handle exists.
C15_DiagnosticForAttrSetAndLogon ==
    \A p \in procs :
        ReturnedNativeFailure(p) =>
            LET c == CallsOf(p)[CauseIndex(p)]
            IN /\ Failed(c)
               /\ IF c.op \in {"OCIAttrSet", "OCILogon"}
                  THEN conn[p].errHandle # NilPtr /\ ReturnsDiagnostic(p, CauseIndex(p))
                  ELSE /\ c.op \in {"OCIEnvCreate", "OCIHandleAlloc"}
                       /\ ReturnsFixedString(p, CauseIndex(p))

\* a failed session handle allocation, reported by its fixed string although
\* an error handle is held
C15_Witness ==
    \E p \in procs :
        /\ ReturnedNativeFailure(p) /\ conn[p].errHandle # NilPtr
        /\ CallsOf(p)[CauseIndex(p)].op = "OCIHandleAlloc"
        /\ err[p] = "cant allocate user session handle"


\* C16: a returned connection carries the timezone, transaction mode,
\* prefetch rows, prefetch memory and placeholder flag of the configuration
\* parsed from the connection string, and its privileged mode, in both
\* branches.
C16_SettingsCopied ==
    \A p \in procs :
        connection[p] = TheConn =>
            \E o \in Orders(DOMAIN QueryOf(dsnString[p]).m) :
                LET d == ParseDSN(dsnString[p], o).dsn
                IN /\ d # NilDSN
                   /\ conn[p].location = d.Location
                   /\ conn[p].transactionMode = d.transactionMode
                   /\ conn[p].prefetchRows = d.prefetchRows
                   /\ conn[p].prefetchMemory = d.prefetchMemory
                   /\ conn[p].enableQMPlaceholders = d.enableQMPlaceholders
                   /\ conn[p].operationMode = d.operationMode

\* a connection returned by the direct logon with settings that differ from
\* the defaults
C16_Witness ==
    \E p \in procs :
        /\ connection[p] = TheConn /\ ~useOCISessionBegin
        /\ conn[p].operationMode = OCI_SYSDBA
        /\ conn[p].prefetchRows = <<"2", "0">>


\* the value of a string of decimal digits
RECURSIVE ValueOf(_)
ValueOf(ds) ==
    IF ds = <<>> THEN 0
    ELSE 10 * ValueOf(SubSeq(ds, 1, Len(ds) - 1)) + DigitVal(ds[Len(ds)])

\* the decimal numeral of k, 1 <= k <= 99: no leading zero
Numeral(k) ==
    CHOOSE ds \in UNION {[1..n -> Digits] : n \in 1..2} :
        ds[1] # "0" /\ ValueOf(ds) = k

\* the first i characters of s with the k-th question mark turned into :k
RECURSIVE Numbered(_, _)
Numbered(s, i) ==
    IF i = 0 THEN <<>>
    ELSE Numbered(s, i - 1) \o
         (IF s[i] = "?"
          THEN <<":">> \o Numeral(Cardinality({j \in 1..i : s[j] = "?"}))
          ELSE <<s[i]>>)

\* C17: every call of placeholders turns the k-th marker of its argument,
\* counted from 1, into :k, keeps every other character, and returns a text
\* without markers; called with its own result it returns that result.
C17_PlaceholdersNumbered ==
    \A i \in 1..Len(rewritten) :
        LET r == rewritten[i]
        IN /\ r.out = Numbered(r.in, Len(r.in))
           /\ \A j \in 1..Len(r.out) : r.out[j] # "?"
           /\ (\E h \in 1..(i - 1) : r.in = rewritten[h].out) => r.out = r.in

\* a statement with two markers rewritten, and its result rewritten again
C17_Witness ==
    /\ Len(rewritten) = 2
    /\ rewritten[1].in = <<"a", "?", "a", "?">>
    /\ rewritten[1].out = <<"a", ":", "1", "a", ":", "2">>
    /\ rewritten[2].in = rewritten[1].out


\* ------------------------------------------------------------------------
\* Concurrent invocations
\* ------------------------------------------------------------------------
\* the connection strings of the concurrent invocations: external
\* authentication, and a user with a password
ConcDSNStrings == { <<"?">>, <<"u", "/", "p", "@", "host">> }

InitConc == InitWith({1, 2}, ConcDSNStrings) /\ NoStatement /\ ~useOCISessionBegin

\* the steps of Open in the direct-logon branch
NextConc ==
    \E p \in procs :
        \/ OpenParse(p)
        \/ EnvCreate(p)
        \/ AllocErr(p)
        \/ Logon(p)
        \/ OpenReturn(p)

SpecConc == InitConc /\ [][NextConc]_vars


\* call i of the log acquires or frees the handle h
Touches(i, h) == calls[i].h = h /\ (Acquires(calls[i]) \/ Frees(calls[i]))

\* the handles in the chain of invocation p: acquired by p and not freed
\* by p
Chain(p) == {x[1] : x \in SeqRange(Acquired(p)) \ SeqRange(Freed(p))}

AllocatedAt(p, i, h) ==
    LET cs == CallsOf(p)
    IN \E j \in 1..(i - 1) :
          /\ Acquires(cs[j]) /\ cs[j].h = h
          /\ \A k \in (j + 1)..(i - 1) : ~(Frees(cs[k]) /\ cs[k].h = h)

\* C19: within one run of Open every handle a native call uses, frees
\* included, is allocated at that call; a diagnostic is read before the
\* error handle is freed; the environment handle is freed after every other
\* handle the run acquired.
C19_NoUseAfterFree ==
    \A p \in procs :
        LET cs == CallsOf(p)
        IN \A i \in 1..Len(cs) :
              /\ \A h \in cs[i].uses : AllocatedAt(p, i, h)
              /\ cs[i].op = "OCIErrorGet" =>
                    \A j \in 1..(i - 1) : ~Frees(cs[j])
              /\ (Frees(cs[i]) /\ cs[i].args.htype = "OCI_HTYPE_ENV") =>
                    /\ i = Len(cs)
                    /\ \A j \in 1..(i - 1) :
                          (Acquires(cs[j]) /\ cs[j].h # cs[i].h) =>
                              \E k \in (j + 1)..(i - 1) :
                                  Frees(cs[k]) /\ cs[k].h = cs[j].h

\* a failed attribute set with five handles held: the diagnostic is read and
\* the five handles are freed
C19_Witness ==
    \E p \in procs :
        /\ pc[p] = "done" /\ err[p] = "native diagnostic"
        /\ Len(Freed(p)) = 5
        /\ \E i \in 1..Len(CallsOf(p)) : CallsOf(p)[i].op = "OCIErrorGet"


\* C20: when ParseDSN fails, Open returns its error and no connection and
\* has made no native call, so that no handle is allocated or freed; when
\* OCIEnvCreate fails, it is the only native call of the run, no handle is
\* freed, and Open returns the fixed error and no connection.
C20_NoNativeCallOnEarlyFailure ==
    \A p \in procs :
        LET cs == CallsOf(p)
        IN /\ (pc[p] = "done" /\ dsn[p] = NilDSN) =>
                 /\ cs = <<>>
                 /\ conn[p] = ZeroConn
                 /\ connection[p] = NilConn
                 /\ \E o \in Orders(DOMAIN QueryOf(dsnString[p]).m) :
                       LET r == ParseDSN(dsnString[p], o)
                       IN r.err # NilErr /\ err[p] = r.err
           /\ (cs # <<>> /\ Failed(cs[1])) =>
                 /\ cs[1].op = "OCIEnvCreate"
                 /\ Len(cs) = 1
                 /\ conn[p].env = NilPtr
                 /\ pc[p] = "done"
                 /\ connection[p] = NilConn
                 /\ err[p] = "can't OCIEnvCreate"

\* a run whose environment creation failed
C20_Witness ==
    \E p \in procs :
        /\ pc[p] = "done" /\ dsn[p] # NilDSN
        /\ Len(CallsOf(p)) = 1 /\ Failed(CallsOf(p)[1])
        /\ live = {}

====
